---- MODULE Spec2Model ----
(***************************************************************************)
(* Model of project1.py: the Student record, the Gradebook roster, its     *)
(* statistics and its JSON snapshot codec.                                 *)
(*                                                                         *)
(* Representation.                                                         *)
(*  - A name is a sequence of one-character strings, so that str.strip()   *)
(*    is computed and not assumed.                                         *)
(*  - A marks dict is a function from a set of subjects to integer scores. *)
(*    Integer scores are exactly representable floats; sums of them are    *)
(*    exact and a quotient sum/len is compared with another quotient or    *)
(*    with a threshold by cross-multiplication, which agrees with the      *)
(*    float comparison for these values.                                   *)
(*  - Gradebook.students is a Python dict: it iterates in insertion order, *)
(*    an assignment to an existing key keeps the key's position, pop       *)
(*    removes the key.  It is a sequence of Student records with pairwise  *)
(*    different rolls, in insertion order.                                 *)
(*  - An Optional value is a sequence of length at most one (<<>> is None).*)
(*  - The file at the path used for save/load holds parsed JSON: a         *)
(*    sequence of objects, each a record over a subset of the keys name,   *)
(*    roll and marks; or it is absent, or it is not JSON.                  *)
(*  - Rolls given to the program are integers, which int() leaves as they  *)
(*    are.                                                                 *)
(*                                                                         *)
(* Specifications.  Spec: the Gradebook in memory and loads of files       *)
(* written outside the program.  SpecSave: the Gradebook saved to the file *)
(* and loaded back.  SpecStats: Gradebooks with marks in two subjects, of  *)
(* which the statistics are taken.                                         *)
(***************************************************************************)
EXTENDS Integers, Sequences, FiniteSets, TLC

VARIABLES students, file, last

vars == <<students, file, last>>

\* ------------------------------------------------------------------ bounds

\* Rolls are 1..MaxRoll; top_n_students is asked for n up to MaxN.
MaxRoll == 2
MaxN == 3

Rolls == 1..MaxRoll

\* ------------------------------------------------------------------ inputs

\* Names as typed: with and without blanks around them.
InputNames == {<<"A">>, <<" ", "B", " ">>}

\* Subjects, and subjects as typed.
Math == <<"M">>
Physics == <<"P">>
TypedSubject == {<<" ", "M">>}
StatsSubjects == {Math, <<" ", "P">>}

\* Marks as typed: below, inside and above the range of set_mark's assertion;
\* and marks whose averages over two subjects fall in each grade bucket.
RangeMarks == {-1, 60, 101}
StatsMarks == {0, 40, 100}

\* The marks argument of Student(...): omitted, or a dict, which the
\* constructor takes as it is.
CtorMarks == {<<>>, <<(Math :> 101)>>}
SaveCtorMarks == {<<>>, <<(Math :> 60)>>}
StatsCtorMarks == {<<>>, <<(Math :> 100) @@ (Physics :> 40)>>}

\* Documents written to the path by something other than save_to_json:
\* text that is no JSON, an empty list, an object without marks and with a
\* blank before the name, a score above 100, the same roll twice, and an
\* object without name behind a well-formed one.
Documents ==
    {[kind |-> "garbage", data |-> <<>>],
     [kind |-> "json", data |-> <<>>],
     [kind |-> "json", data |-> <<[name |-> <<" ", "A">>, roll |-> 2]>>],
     [kind |-> "json",
      data |-> <<[name |-> <<"B">>, roll |-> 1, marks |-> (Math :> 101)]>>],
     [kind |-> "json",
      data |-> <<[name |-> <<"A">>, roll |-> 2, marks |-> (Math :> 60)],
                 [name |-> <<"B">>, roll |-> 2, marks |-> <<>>]>>],
     [kind |-> "json",
      data |-> <<[name |-> <<"A">>, roll |-> 1, marks |-> <<>>],
                 [roll |-> 2, marks |-> <<>>]>>]}

\* ---------------------------------------------------------------- helpers

None == <<>>
Some(x) == <<x>>

EmptyMarks == <<>>

Min(a, b) == IF a <= b THEN a ELSE b
Max(a, b) == IF a >= b THEN a ELSE b

Range(seq) == {seq[i] : i \in 1..Len(seq)}

\* str.strip(): leading and trailing blanks removed.
RECURSIVE LStrip(_)
LStrip(s) == IF s # <<>> /\ Head(s) = " " THEN LStrip(Tail(s)) ELSE s

RECURSIVE RStrip(_)
RStrip(s) ==
    IF s # <<>> /\ s[Len(s)] = " " THEN RStrip(SubSeq(s, 1, Len(s) - 1)) ELSE s

Strip(s) == RStrip(LStrip(s))

\* ---------------------------------------------------------------- Student

\* Student.__init__(name, roll, marks=None): marks is an Optional dict.
StudentInit(name, roll, marks) ==
    [name |-> Strip(name),
     roll |-> roll,
     marks |-> IF marks = None \/ marks[1] = EmptyMarks THEN EmptyMarks ELSE marks[1]]

\* The assertion of Student.set_mark.
MarkOk(mark) == 0 <= mark /\ mark <= 100

\* self.marks[subject.strip()] = float(mark): the dict with the key set.
MarksWith(marks, subject, mark) ==
    [k \in DOMAIN marks \cup {subject} |-> IF k = subject THEN mark ELSE marks[k]]

\* Student.set_mark: [ok, marks]; a failed assertion raises before the store.
SetMarkStoreFirst(s, subject, mark) ==
    [ok |-> MarkOk(mark), marks |-> MarksWith(s.marks, subject, mark)]

set_mark(s, subject, mark) ==
    IF MarkOk(mark)
    THEN [ok |-> TRUE, marks |-> MarksWith(s.marks, subject, mark)]
    ELSE [ok |-> FALSE, marks |-> s.marks]

RECURSIVE SumOver(_, _)
SumOver(marks, keys) ==
    IF keys = {} THEN 0
    ELSE LET k == CHOOSE x \in keys : TRUE
         IN marks[k] + SumOver(marks, keys \ {k})

\* Student.get_average: None without marks, else the quotient total/len,
\* kept as the pair [total, count].
get_average(s) ==
    IF DOMAIN s.marks = {} THEN None
    ELSE Some([total |-> SumOver(s.marks, DOMAIN s.marks),
               count |-> Cardinality(DOMAIN s.marks)])

\* Student.to_dict.
to_dict(s) == [name |-> s.name, roll |-> s.roll, marks |-> s.marks]

\* Student.from_dict: d["name"] and d["roll"] raise KeyError when missing,
\* d.get("marks", {}) does not.
FromDictOk(d) == "name" \in DOMAIN d /\ "roll" \in DOMAIN d

from_dict(d) ==
    StudentInit(d.name, d.roll,
                IF "marks" \in DOMAIN d THEN Some(d.marks) ELSE Some(EmptyMarks))

\* -------------------------------------------------------------- Gradebook

\* The keys of the dict self.students.
Keys(d) == {d[i].roll : i \in 1..Len(d)}

\* roll in self.students
Has(d, roll) == roll \in Keys(d)

\* The position of a key that is present.
IndexOf(d, roll) == CHOOSE i \in 1..Len(d) : d[i].roll = roll

\* self.students[s.roll] = s: a present key keeps its position.
DictSet(d, s) ==
    IF Has(d, s.roll)
    THEN [d EXCEPT ![IndexOf(d, s.roll)] = s]
    ELSE Append(d, s)

\* self.students.pop(roll, None): the dict without the key.
DictPop(d, roll) ==
    IF Has(d, roll)
    THEN LET i == IndexOf(d, roll)
         IN SubSeq(d, 1, i - 1) \o SubSeq(d, i + 1, Len(d))
    ELSE d

\* Gradebook.add_student: raises ValueError on a roll that is present.
AddStudentOverwrite(d, s) == [ok |-> ~Has(d, s.roll), students |-> DictSet(d, s)]

add_student(d, s) ==
    IF Has(d, s.roll)
    THEN [ok |-> FALSE, students |-> d]
    ELSE [ok |-> TRUE, students |-> DictSet(d, s)]

\* Gradebook.get_student: Optional[Student].
get_student(d, roll) == IF Has(d, roll) THEN Some(d[IndexOf(d, roll)]) ELSE None

\* Gradebook.delete_student: [ret, students].
DeleteStudentKeeps(d, roll) == [ret |-> Has(d, roll), students |-> d]

delete_student(d, roll) == [ret |-> Has(d, roll), students |-> DictPop(d, roll)]

\* Gradebook.edit_student_name: [ret, students].
EditStudentNameNoStrip(d, roll, new_name) ==
    IF ~Has(d, roll)
    THEN [ret |-> FALSE, students |-> d]
    ELSE [ret |-> TRUE,
          students |-> [d EXCEPT ![IndexOf(d, roll)].name = new_name]]

edit_student_name(d, roll, new_name) ==
    IF ~Has(d, roll)
    THEN [ret |-> FALSE, students |-> d]
    ELSE [ret |-> TRUE,
          students |-> [d EXCEPT ![IndexOf(d, roll)].name = Strip(new_name)]]

\* sorted(seq, key=lambda s: s.roll): a stable sort, as an insertion sort
\* that places each element behind the elements whose key is not larger.
RECURSIVE InsertByRoll(_, _)
InsertByRoll(sorted, s) ==
    IF sorted = <<>> THEN <<s>>
    ELSE IF Head(sorted).roll <= s.roll
         THEN <<Head(sorted)>> \o InsertByRoll(Tail(sorted), s)
         ELSE <<s>> \o sorted

RECURSIVE SortedByRoll(_)
SortedByRoll(seq) ==
    IF seq = <<>> THEN <<>>
    ELSE InsertByRoll(SortedByRoll(SubSeq(seq, 1, Len(seq) - 1)), seq[Len(seq)])

\* Gradebook.list_all.
ListAllUnsorted(d) == d

list_all(d) == SortedByRoll(d)

\* ------------------------------------------------------------- statistics

\* (s.get_average() or 0.0): the quotient [total, count], 0/1 for None.
ScoreOf(s) ==
    LET avg == get_average(s)
    IN IF avg = None THEN [total |-> 0, count |-> 1] ELSE avg[1]

\* a >= b on quotients with positive counts.
GE(a, b) == a.total * b.count >= b.total * a.count

\* scored.sort(key=lambda x: x[1], reverse=True): stable, so each pair goes
\* behind the pairs whose score is not smaller.
RECURSIVE InsertByScoreDesc(_, _)
InsertByScoreDesc(sorted, x) ==
    IF sorted = <<>> THEN <<x>>
    ELSE IF GE(Head(sorted).score, x.score)
         THEN <<Head(sorted)>> \o InsertByScoreDesc(Tail(sorted), x)
         ELSE <<x>> \o sorted

RECURSIVE SortedByScoreDesc(_)
SortedByScoreDesc(seq) ==
    IF seq = <<>> THEN <<>>
    ELSE InsertByScoreDesc(SortedByScoreDesc(SubSeq(seq, 1, Len(seq) - 1)),
                           seq[Len(seq)])

\* seq[:n]: a negative n counts from the end.
SliceTo(seq, n) ==
    IF n >= 0 THEN SubSeq(seq, 1, Min(n, Len(seq)))
    ELSE SubSeq(seq, 1, Max(Len(seq) + n, 0))

\* Gradebook.top_n_students: the pairs (student, score).
TopNUnsorted(d, n) ==
    SliceTo([i \in 1..Len(d) |-> [student |-> d[i], score |-> ScoreOf(d[i])]], n)

top_n_students(d, n) ==
    LET scored == [i \in 1..Len(d) |-> [student |-> d[i], score |-> ScoreOf(d[i])]]
    IN SliceTo(SortedByScoreDesc(scored), n)

Grades == {"A", "B", "C", "D", "F"}

\* The bucket grade_distribution counts a student in.
GradeOf(s) ==
    LET avg == get_average(s)
    IN IF avg = None THEN "F"
       ELSE IF avg[1].total >= 80 * avg[1].count THEN "A"
       ELSE IF avg[1].total >= 60 * avg[1].count THEN "B"
       ELSE IF avg[1].total >= 50 * avg[1].count THEN "C"
       ELSE IF avg[1].total >= 40 * avg[1].count THEN "D"
       ELSE "F"

\* Gradebook.grade_distribution: the loop over self.students.values().
RECURSIVE GradeLoop(_, _, _)
GradeLoop(d, i, buckets) ==
    IF i > Len(d) THEN buckets
    ELSE GradeLoop(d, i + 1,
                   [buckets EXCEPT ![GradeOf(d[i])] = buckets[GradeOf(d[i])] + 1])

RECURSIVE GradeLoopSkipNone(_, _, _)
GradeLoopSkipNone(d, i, buckets) ==
    IF i > Len(d) THEN buckets
    ELSE IF get_average(d[i]) = None THEN GradeLoopSkipNone(d, i + 1, buckets)
    ELSE GradeLoopSkipNone(d, i + 1,
                   [buckets EXCEPT ![GradeOf(d[i])] = buckets[GradeOf(d[i])] + 1])

GradeDistributionSkipNone(d) == GradeLoopSkipNone(d, 1, [g \in Grades |-> 0])

grade_distribution(d) == GradeLoop(d, 1, [g \in Grades |-> 0])

\* ------------------------------------------------------------ persistence

\* The three contents of the file: none, text that is not JSON, a JSON list.
NoFile == [kind |-> "absent", data |-> <<>>]
Garbage == [kind |-> "garbage", data |-> <<>>]
Json(data) == [kind |-> "json", data |-> data]

\* payload = [s.to_dict() for s in self.list_all()]
Payload(d) == LET all == list_all(d) IN [i \in 1..Len(all) |-> to_dict(all[i])]

\* The loop of load_from_json from item i on: a KeyError of from_dict leaves
\* the loop with the items before it stored.
RECURSIVE LoadLoop(_, _, _)
LoadLoop(d, data, i) ==
    IF i > Len(data) THEN [result |-> "ok", students |-> d]
    ELSE IF ~FromDictOk(data[i]) THEN [result |-> "KeyError", students |-> d]
    ELSE LoadLoop(DictSet(d, from_dict(data[i])), data, i + 1)

\* Gradebook.load_from_json on the dict d with the file f: [result, students].
load_from_json(d, f) ==
    IF f.kind = "absent" THEN [result |-> "FileNotFoundError", students |-> d]
    ELSE IF f.kind = "garbage" THEN [result |-> "JSONDecodeError", students |-> d]
    ELSE LoadLoop(d, f.data, 1)

\* main_menu, choice 9: gb = Gradebook(); gb.load_from_json(path).  The new
\* Gradebook is bound before the load, so it stays bound when the load raises.
MenuLoadKeepsCurrent(d, f) == load_from_json(d, f)

MenuLoad(d, f) == load_from_json(<<>>, f)

\* ---------------------------------------------------------- state machine

\* last: the call made last, what it returned or raised, and of its
\* circumstances those the properties below refer to: the roll given to
\* add_student and delete_student, the mark given to set_mark, and the keys
\* the Gradebook held when a load began.
Call(op, roll, mark, result, before) ==
    [op |-> op, roll |-> roll, mark |-> mark, result |-> result, before |-> before]

Init ==
    /\ students = <<>>
    /\ file = NoFile
    /\ last = Call("init", 0, 0, "ok", {})

\* s = Student(name, roll, marks); gb.add_student(s)
AddStudent(names, ctorMarks) ==
    \E name \in names, roll \in Rolls, marks \in ctorMarks :
        LET r == add_student(students, StudentInit(name, roll, marks))
        IN /\ students' = r.students
           /\ last' = Call("add_student", roll, 0,
                           IF r.ok THEN "ok" ELSE "ValueError", {})
           /\ UNCHANGED file

\* gb.delete_student(roll)
DeleteStudent ==
    \E roll \in Rolls :
        LET r == delete_student(students, roll)
        IN /\ students' = r.students
           /\ last' = Call("delete_student", roll, 0,
                           IF r.ret THEN "True" ELSE "False", {})
           /\ UNCHANGED file

\* gb.edit_student_name(roll, new_name)
EditStudentName(names) ==
    \E roll \in Rolls, new_name \in names :
        LET r == edit_student_name(students, roll, new_name)
        IN /\ students' = r.students
           /\ last' = Call("edit_student_name", 0, 0,
                           IF r.ret THEN "True" ELSE "False", {})
           /\ UNCHANGED file

\* s = gb.get_student(roll); s.set_mark(subject, mark)
SetMark(subjects, marks) ==
    \E roll \in Keys(students), subject \in subjects, mark \in marks :
        LET i == IndexOf(students, roll)
            r == set_mark(students[i], Strip(subject), mark)
        IN /\ students' = [students EXCEPT ![i].marks = r.marks]
           /\ last' = Call("set_mark", 0, mark,
                           IF r.ok THEN "ok" ELSE "AssertionError", {})
           /\ UNCHANGED file

\* main_menu, choice 5.3: if subj in s.marks: s.marks.pop(subj)
RemoveMark(subjects) ==
    \E roll \in Keys(students), subject \in subjects :
        LET i == IndexOf(students, roll)
            subj == Strip(subject)
            m == students[i].marks
        IN /\ students' =
                 IF subj \in DOMAIN m
                 THEN [students EXCEPT ![i].marks = [k \in DOMAIN m \ {subj} |-> m[k]]]
                 ELSE students
           /\ last' = Call("remove_mark", 0, 0,
                           IF subj \in DOMAIN m THEN "ok" ELSE "not found", {})
           /\ UNCHANGED file

\* gb.save_to_json(path): open(path, "w") raises, or the payload is written.
SaveToJson ==
    \E opened \in BOOLEAN :
        /\ file' = IF opened THEN Json(Payload(students)) ELSE file
        /\ last' = Call("save_to_json", 0, 0, IF opened THEN "ok" ELSE "OSError", {})
        /\ UNCHANGED students

\* gb.load_from_json(path) on the Gradebook in use
LoadFromJson ==
    LET r == load_from_json(students, file)
    IN /\ students' = r.students
       /\ last' = Call("load_from_json", 0, 0, r.result, Keys(students))
       /\ UNCHANGED file

\* main_menu, choice 9
ReloadFromJson ==
    LET r == MenuLoad(students, file)
    IN /\ students' = r.students
       /\ last' = Call("reload", 0, 0, r.result, Keys(students))
       /\ UNCHANGED file

\* The file is written or removed outside the program.
WriteFile ==
    \E f \in Documents \cup {NoFile} :
        /\ file' = f
        /\ last' = Call("write_file", 0, 0, "ok", {})
        /\ UNCHANGED students

\* The Gradebook in memory, and loads of files written outside the program.
Next ==
    \/ AddStudent(InputNames, CtorMarks)
    \/ DeleteStudent
    \/ EditStudentName(InputNames)
    \/ SetMark(TypedSubject, RangeMarks)
    \/ RemoveMark(TypedSubject)
    \/ LoadFromJson
    \/ ReloadFromJson
    \/ WriteFile

Spec == Init /\ [][Next]_vars

\* The Gradebook in memory, saved and loaded back from the file it wrote.
NextSave ==
    \/ AddStudent({<<" ", "B", " ">>}, SaveCtorMarks)
    \/ DeleteStudent
    \/ EditStudentName(InputNames)
    \/ SaveToJson
    \/ LoadFromJson
    \/ ReloadFromJson

SpecSave == Init /\ [][NextSave]_vars

\* The Gradebooks the statistics are taken of: marks in two subjects.
NextStats ==
    \/ AddStudent({<<"A">>}, StatsCtorMarks)
    \/ DeleteStudent
    \/ SetMark(StatsSubjects, StatsMarks)
    \/ RemoveMark(StatsSubjects)

SpecStats == Init /\ [][NextStats]_vars

\* ------------------------------------------------------------------ claims

Loads == {"load_from_json", "reload"}

\* The roll of every object of a JSON list that load_from_json read through.
DocRolls(f) == {f.data[i].roll : i \in 1..Len(f.data)}

\* C1: in every reachable state every score stored in the marks of every
\* Student of the Gradebook lies in [0, 100].
C1_ScoresInRange ==
    \A i \in 1..Len(students) :
        \A k \in DOMAIN students[i].marks : MarkOk(students[i].marks[k])

\* C2: set_mark with a mark outside [0, 100] raises AssertionError and leaves
\* the marks of the Student, and so the whole Gradebook, as they were.
C2_SetMarkRejects ==
    [][(last'.op = "set_mark" /\ ~MarkOk(last'.mark))
        => (last'.result = "AssertionError" /\ students' = students)]_vars

\* A mark outside the range was refused for a Student that holds marks.
C2_Witness ==
    /\ last.op = "set_mark"
    /\ ~MarkOk(last.mark)
    /\ last.result = "AssertionError"
    /\ \E i \in 1..Len(students) : students[i].marks # EmptyMarks

\* C3: add_student with a roll that is a key of the Gradebook raises
\* ValueError and leaves the Gradebook as it was: the same keys, and under
\* each key the Student that was there.
C3_AddDuplicateRejected ==
    [][(last'.op = "add_student" /\ Has(students, last'.roll))
        => (last'.result = "ValueError" /\ students' = students)]_vars

\* A second add_student with a roll that is held was refused.
C3_Witness ==
    /\ last.op = "add_student"
    /\ last.result = "ValueError"
    /\ Has(students, last.roll)

\* C4: the file save_to_json wrote, loaded into an empty Gradebook, gives a
\* Gradebook with the same rolls and under each roll the same name and marks.
C4_RoundTrip ==
    (last.op = "save_to_json" /\ last.result = "ok") =>
        LET r == load_from_json(<<>>, file)
        IN /\ r.result = "ok"
           /\ Keys(r.students) = Keys(students)
           /\ \A roll \in Keys(students) :
                  get_student(r.students, roll) = get_student(students, roll)

\* A Gradebook of two Students, inserted in descending roll order, one with
\* marks, was saved.
C4_Witness ==
    /\ last.op = "save_to_json"
    /\ last.result = "ok"
    /\ Len(students) = 2
    /\ students[1].roll > students[2].roll
    /\ \E i \in 1..2 : students[i].marks # EmptyMarks

\* C5: a load that raises leaves the Gradebook holding exactly the Students
\* it held before the load.
C5_FailedLoadAtomic ==
    [][(last'.op \in Loads /\ last'.result # "ok")
        => Range(students') = Range(students)]_vars

\* C6, as claimed: after a load that succeeds, the rolls of the Gradebook are
\* exactly the rolls in the document.
C6_LoadReplaces ==
    [][(last'.op \in Loads /\ last'.result = "ok")
        => Keys(students') = DocRolls(file)]_vars

\* C6, amended: after main_menu's reload (a new Gradebook, then the load)
\* succeeds, the rolls are exactly the rolls in the document; after
\* load_from_json succeeds on the Gradebook in use, the rolls are those held
\* before together with those in the document.
C6_ReloadReplaces ==
    [][/\ (last'.op = "reload" /\ last'.result = "ok")
            => Keys(students') = DocRolls(file)
       /\ (last'.op = "load_from_json" /\ last'.result = "ok")
            => Keys(students') = Keys(students) \cup DocRolls(file)]_vars

\* A reload succeeded on a document with a Student, and a roll held before
\* it is gone.
C6_Witness ==
    /\ last.op = "reload"
    /\ last.result = "ok"
    /\ students # <<>>
    /\ last.before \ Keys(students) # {}

\* The sum of the counts of a distribution.
RECURSIVE SumCounts(_, _)
SumCounts(g, keys) ==
    IF keys = {} THEN 0
    ELSE LET k == CHOOSE x \in keys : TRUE
         IN g[k] + SumCounts(g, keys \ {k})

\* C7: grade_distribution returns a count for each of A, B, C, D, F; every
\* Student is counted in exactly one bucket, so the counts sum to the number
\* of Students.
C7_GradeDistributionTotal ==
    LET g == grade_distribution(students)
    IN /\ DOMAIN g = Grades
       /\ \A k \in Grades : g[k] \in 0..Len(students)
       /\ SumCounts(g, Grades) = Len(students)

\* Two Students, one without marks and one with an average in [50, 60).
C7_Witness ==
    /\ Len(students) = 2
    /\ \E i \in 1..2 : students[i].marks = EmptyMarks
    /\ \E i \in 1..2 : GradeOf(students[i]) = "C"

\* What C9 says of the pairs top_n_students returns for n, given how many
\* pairs there have to be.
TopNOk(n, count) ==
    LET r == top_n_students(students, n)
        chosen == {r[i].student : i \in 1..Len(r)}
    IN /\ Len(r) = count
       /\ Cardinality(chosen) = Len(r)
       /\ chosen \subseteq Range(students)
       /\ \A i \in 1..Len(r) : r[i].score = ScoreOf(r[i].student)
       /\ \A i, j \in 1..Len(r) : i < j => GE(r[i].score, r[j].score)
       /\ \A s \in Range(students) \ chosen :
              \A i \in 1..Len(r) : GE(r[i].score, ScoreOf(s))

\* C9, as claimed: for every integer n, top_n_students(n) returns
\* min(n, number of Students) pairs (none, when that is negative), in
\* non-increasing order of score, and no Student left out has a score above
\* one returned.
C9_TopNEveryInteger ==
    \A n \in (-MaxN)..MaxN : TopNOk(n, Max(0, Min(n, Len(students))))

\* C9, amended: the same for every n >= 0.
C9_TopNNonNegative ==
    \A n \in 0..MaxN : TopNOk(n, Min(n, Len(students)))

\* Two Students, the one inserted first with the lower score, one of them
\* without marks.
C9_Witness ==
    /\ Len(students) = 2
    /\ ~GE(ScoreOf(students[1]), ScoreOf(students[2]))
    /\ students[1].marks = EmptyMarks

\* C8: after delete_student(roll), get_student(roll) is None; it returns True
\* exactly when the roll was held, and on a roll not held it returns False
\* and leaves the Gradebook as it was.
C8_Delete ==
    [][last'.op = "delete_student" =>
        /\ get_student(students', last'.roll) = None
        /\ (last'.result = "True") <=> Has(students, last'.roll)
        /\ ~Has(students, last'.roll) =>
               (last'.result = "False" /\ students' = students)]_vars

\* A Student was deleted and another one is still held.
C8_Witness ==
    /\ last.op = "delete_student"
    /\ last.result = "True"
    /\ ~Has(students, last.roll)
    /\ students # <<>>

\* C10: list_all returns every Student of the Gradebook once, in strictly
\* ascending order of roll, whatever the order of insertion; the list
\* save_to_json writes has the same order.
C10_ListAllAscending ==
    LET all == list_all(students)
    IN /\ Len(all) = Len(students)
       /\ Range(all) = Range(students)
       /\ \A i, j \in 1..Len(all) : i < j => all[i].roll < all[j].roll
       /\ (last.op = "save_to_json" /\ last.result = "ok") =>
              /\ Len(file.data) = Len(all)
              /\ \A i \in 1..Len(all) : file.data[i].roll = all[i].roll
              /\ \A i, j \in 1..Len(file.data) :
                     i < j => file.data[i].roll < file.data[j].roll

\* Two Students held in descending roll order of insertion were saved.
C10_Witness ==
    /\ last.op = "save_to_json"
    /\ last.result = "ok"
    /\ Len(students) = 2
    /\ students[1].roll > students[2].roll

====
